---- MODULE Spec2Model ----
(***************************************************************************)
(* Model of library_manager.py: the Streamlit personal library manager.    *)
(*                                                                         *)
(* Every user interaction reruns main(): the catalog is loaded from        *)
(* library.json, the page chosen in the sidebar runs, and the run ends.    *)
(* One action of the model is one such run.  Text is a sequence of         *)
(* one-character strings; a book is a function from field names to values *)
(* whose domain is the set of keys the dict holds; a year is <<n>> for the *)
(* integer n and <<>> for None.                                            *)
(***************************************************************************)
EXTENDS Integers, Sequences, FiniteSets, TLC

VARIABLES
    file,           \* library.json: [state, books]
    txt,            \* library.txt, the export file: a text
    confirm_clear,  \* st.session_state["confirm_clear"]
    library,        \* main()'s list `library` when the last run ended
    results,        \* the books the last search run rendered
    op,             \* the page the last run executed
    result          \* what the last run reported

vars == <<file, txt, confirm_clear, library, results, op, result>>

----------------------------------------------------------------------------
(* Bounds of the model *)

MaxBooks == 2

----------------------------------------------------------------------------
(* Python str operations *)

UpperChars == <<"A","B","C","D","E","F","G","H","I","J","K","L","M",
                "N","O","P","Q","R","S","T","U","V","W","X","Y","Z">>
LowerChars == <<"a","b","c","d","e","f","g","h","i","j","k","l","m",
                "n","o","p","q","r","s","t","u","v","w","x","y","z">>

LowerChar(c) ==
    IF \E i \in 1..Len(UpperChars) : UpperChars[i] = c
    THEN LowerChars[CHOOSE i \in 1..Len(UpperChars) : UpperChars[i] = c]
    ELSE c

\* str.lower()
Lower(s) == [i \in 1..Len(s) |-> LowerChar(s[i])]

\* str.startswith(p)
StartsWith(s, p) == Len(s) >= Len(p) /\ SubSeq(s, 1, Len(p)) = p

\* q in s
Contains(s, q) ==
    \E i \in 1..(Len(s) - Len(q) + 1) : SubSeq(s, i, i + Len(q) - 1) = q

\* str.replace(old, ""): every non-overlapping occurrence, left to right
RECURSIVE Remove(_, _)
Remove(s, old) ==
    IF s = <<>> THEN <<>>
    ELSE IF StartsWith(s, old) THEN Remove(SubSeq(s, Len(old) + 1, Len(s)), old)
    ELSE <<Head(s)>> \o Remove(Tail(s), old)

\* the whitespace characters among those the texts of the model use
Whitespace == {" ", "\t", "\n", "\r", "\f"}

RECURSIVE LStrip(_)
LStrip(s) ==
    IF s # <<>> /\ Head(s) \in Whitespace THEN LStrip(Tail(s)) ELSE s

RECURSIVE RStrip(_)
RStrip(s) ==
    IF s # <<>> /\ s[Len(s)] \in Whitespace
    THEN RStrip(SubSeq(s, 1, Len(s) - 1)) ELSE s

\* str.strip()
Strip(s) == RStrip(LStrip(s))

\* the line boundaries of splitlines among those characters
LineBreaks == {"\n", "\r", "\f"}

\* str.splitlines(): the lines without their line breaks; "\r\n" is one
\* break, and a text that ends with a break has no empty last line.
\* BreakEnds(s) are the positions where a line break ends.
BreakEnds(s) ==
    {i \in 1..Len(s) : /\ s[i] \in LineBreaks
                       /\ ~(s[i] = "\r" /\ i < Len(s) /\ s[i + 1] = "\n")}

BreakStart(s, i) == IF s[i] = "\n" /\ i > 1 /\ s[i - 1] = "\r" THEN i - 1 ELSE i

\* the j-th smallest element of a set of numbers (0 for j = 0)
Nth(S, j) ==
    IF j = 0 THEN 0 ELSE CHOOSE x \in S : Cardinality({y \in S : y < x}) = j - 1

SplitLines(s) ==
    LET ends == BreakEnds(s)
        n == Cardinality(ends)
        last == Nth(ends, n)
        broken == [j \in 1..n |->
                     SubSeq(s, Nth(ends, j - 1) + 1, BreakStart(s, Nth(ends, j)) - 1)]
    IN  IF last < Len(s) THEN Append(broken, SubSeq(s, last + 1, Len(s))) ELSE broken

DigitChars == <<"0","1","2","3","4","5","6","7","8","9">>

IsDigit(c) == \E i \in 1..10 : DigitChars[i] = c

DigitValue(c) == (CHOOSE i \in 1..10 : DigitChars[i] = c) - 1

RECURSIVE NatToStr(_)
NatToStr(n) ==
    IF n < 10 THEN <<DigitChars[n + 1]>>
    ELSE Append(NatToStr(n \div 10), DigitChars[(n % 10) + 1])

\* str(n) of an int
IntToStr(n) == IF n < 0 THEN <<"-">> \o NatToStr(0 - n) ELSE NatToStr(n)

RECURSIVE DigitsValue(_, _)
DigitsValue(s, acc) ==
    IF s = <<>> THEN acc
    ELSE DigitsValue(Tail(s), 10 * acc + DigitValue(Head(s)))

\* int(s): <<n>> for the integer read, <<>> when int raises ValueError.
\* Surrounding whitespace and one sign are accepted.  (int also accepts
\* single underscores between digits; no text of the model holds one.)
ParseInt(s) ==
    LET t == Strip(s)
        signed == t # <<>> /\ Head(t) \in {"+", "-"}
        digits == IF signed THEN Tail(t) ELSE t
    IN  IF digits = <<>> \/ \E i \in 1..Len(digits) : ~IsDigit(digits[i])
        THEN <<>>
        ELSE IF signed /\ Head(t) = "-"
             THEN <<0 - DigitsValue(digits, 0)>>
             ELSE <<DigitsValue(digits, 0)>>

----------------------------------------------------------------------------
(* Books *)

NoBook == <<>>

\* book[k] = v on a dict
Put(book, k, v) == (k :> v) @@ book

Book(t, a, y, g, r) ==
    [title |-> t, author |-> a, year |-> <<y>>, genre |-> g, read_status |-> r]

Fields == {"title", "author", "year", "genre", "read_status"}

\* book[k]: raises KeyError when the dict has no key k
HasKey(book, k) == k \in DOMAIN book

----------------------------------------------------------------------------
(* library.json *)

\* The file is modelled by the list json.load reads from it: json.dump and
\* json.load are inverse on lists of dicts of str, int, bool and None.
AbsentFile == [state |-> "absent", books |-> <<>>]

ValidFile(books) == [state |-> "valid", books |-> books]

\* What an interrupted json.dump leaves: the first k books of the array and
\* no closing bracket (k = 0: the file open(..., "w") truncated)
PartialFile(books, k) == [state |-> "partial", books |-> SubSeq(books, 1, k)]

\* json.load accepts the file (or there is none)
Loadable(f) == f.state # "partial"

\* load_library(), for a loadable file
load_library(f) == IF f.state = "valid" THEN f.books ELSE <<>>

IOOutcomes == {"ok", "open_fails", "write_fails"}

\* where a write of lib can stop: after any number of its books
Cuts(lib, io) == IF io = "write_fails" THEN 0..Len(lib) ELSE {0}

\* save_library(lib): the file it leaves.  "open_fails": open raises and the
\* file is untouched; "write_fails": the write stops after open truncated
\* the file.
save_library(f, lib, io, k) ==
    CASE io = "ok"          -> ValidFile(lib)
      [] io = "open_fails"  -> f
      [] io = "write_fails" -> PartialFile(lib, k)

----------------------------------------------------------------------------
(* The text format of export_library and import_library *)

DelimiterLen == 30

Delimiter == [i \in 1..DelimiterLen |-> "-"]

TitleLabel  == <<"T","i","t","l","e",":"," ">>
AuthorLabel == <<"A","u","t","h","o","r",":"," ">>
YearLabel   == <<"Y","e","a","r",":"," ">>
GenreLabel  == <<"G","e","n","r","e",":"," ">>
ReadLabel   == <<"R","e","a","d",":"," ">>

\* the labels without their blank, as startswith tests them
TitlePrefix  == <<"T","i","t","l","e",":">>
AuthorPrefix == <<"A","u","t","h","o","r",":">>
YearPrefix   == <<"Y","e","a","r",":">>
GenrePrefix  == <<"G","e","n","r","e",":">>
ReadPrefix   == <<"R","e","a","d",":">>

Yes == <<"Y","e","s">>
No  == <<"N","o">>
NoneText == <<"N","o","n","e">>

ExportOrder == <<"title", "author", "year", "genre", "read_status">>

ExportLabel(k) ==
    CASE k = "title"       -> TitleLabel
      [] k = "author"      -> AuthorLabel
      [] k = "year"        -> YearLabel
      [] k = "genre"       -> GenreLabel
      [] k = "read_status" -> ReadLabel

\* f"{book[k]}" as export_library formats it
FieldText(book, k) ==
    CASE k = "year"        -> (IF book[k] = <<>> THEN NoneText ELSE IntToStr(book[k][1]))
      [] k = "read_status" -> (IF book[k] THEN Yes ELSE No)
      [] OTHER             -> book[k]

\* The writes for one book from its i-th line on; a missing key raises
\* KeyError before its line is written
RECURSIVE BookText(_, _)
BookText(book, i) ==
    IF i > Len(ExportOrder) THEN Delimiter \o <<"\n">>
    ELSE IF ~HasKey(book, ExportOrder[i]) THEN <<>>
    ELSE ExportLabel(ExportOrder[i]) \o FieldText(book, ExportOrder[i])
             \o <<"\n">> \o BookText(book, i + 1)

Complete(book) == \A i \in 1..Len(ExportOrder) : HasKey(book, ExportOrder[i])

\* What the loop of export_library has written when it ends or raises
RECURSIVE ExportText(_)
ExportText(lib) ==
    IF lib = <<>> THEN <<>>
    ELSE IF Complete(Head(lib)) THEN BookText(Head(lib), 1) \o ExportText(Tail(lib))
    ELSE BookText(Head(lib), 1)

ExportRaises(lib) == \E i \in 1..Len(lib) : ~Complete(lib[i])

\* One iteration of import_library's loop; st = [library, book]
ImportLine(st, line) ==
    IF StartsWith(line, TitlePrefix)
    THEN [st EXCEPT !.book = Put(@, "title", Strip(Remove(line, TitleLabel)))]
    ELSE IF StartsWith(line, AuthorPrefix)
    THEN [st EXCEPT !.book = Put(@, "author", Strip(Remove(line, AuthorLabel)))]
    ELSE IF StartsWith(line, YearPrefix)
    THEN [st EXCEPT !.book = Put(@, "year", ParseInt(Strip(Remove(line, YearLabel))))]
    ELSE IF StartsWith(line, GenrePrefix)
    THEN [st EXCEPT !.book = Put(@, "genre", Strip(Remove(line, GenreLabel)))]
    ELSE IF StartsWith(line, ReadPrefix)
    THEN [library |-> Append(st.library,
                             Put(st.book, "read_status",
                                 Strip(Remove(line, ReadLabel)) = Yes)),
          book |-> NoBook]
    ELSE st

RECURSIVE ImportLines(_, _)
ImportLines(lines, st) ==
    IF lines = <<>> THEN st
    ELSE ImportLines(Tail(lines), ImportLine(st, Head(lines)))

\* The list import_library builds from the uploaded text
ParseLibrary(text) ==
    ImportLines(SplitLines(text), [library |-> <<>>, book |-> NoBook]).library

----------------------------------------------------------------------------
(* Inputs *)

MinYear == 1000
MaxYear == 2024

Ab == <<"A","b">>
ab == <<"a","b">>
Bc == <<"B","c">>
Cd == <<"C","d">>
Ef == <<"E","f">>
Gn == <<"g">>

Form(t, a, y, g, r) ==
    [title |-> t, author |-> a, year |-> y, genre |-> g, read_status |-> r]

\* What the widgets of add_book hand over: the text inputs any text, the
\* number input a year of MinYear..MaxYear, the checkbox a boolean
AddForms ==
    { Form(Ab, Bc, MinYear, Gn, TRUE),
      Form(ab, Bc, MaxYear, Gn, FALSE),
      Form(<<>>, Bc, MinYear, Gn, TRUE),
      Form(Ab, <<>>, MaxYear, Gn, FALSE),
      Form(ab, Bc, MinYear, <<>>, TRUE),
      Form(<<>>, <<>>, MaxYear, <<>>, FALSE) }

TitlesToRemove == { <<"A","B">>, Cd }

Queries == { <<>>, <<"b">>, <<"E">> }

NL == <<"\n">>

\* one well-formed record, as export_library writes it
GoodUpload ==
    TitleLabel \o Cd \o NL \o AuthorLabel \o Ef \o NL
        \o YearLabel \o <<"1","9","6","5">> \o NL
        \o GenreLabel \o Gn \o NL \o ReadLabel \o No \o NL \o Delimiter \o NL

\* a block without a Title: line and with a malformed year
BadUpload ==
    AuthorLabel \o Ef \o NL \o YearLabel \o <<"a","b","c","d">> \o NL
        \o GenreLabel \o Gn \o NL \o ReadLabel \o Yes \o NL

\* the texts a user uploads: the fixed ones and the exported file
Uploads == { <<>>, GoodUpload, BadUpload, txt }

----------------------------------------------------------------------------
(* The runs of main() *)

Init ==
    /\ file = AbsentFile
    /\ txt = <<>>
    /\ confirm_clear = FALSE
    /\ library = <<>>
    /\ results = <<>>
    /\ op = "start"
    /\ result = "shown"

\* line 240 raises: json.load cannot parse library.json, and the run ends
\* before any page
LoadFails ==
    /\ ~Loadable(file)
    /\ op' = "load"
    /\ result' = "json_error"
    /\ results' = <<>>
    /\ UNCHANGED <<file, txt, confirm_clear, library>>

\* the condition of line 86 with the genre left out
FieldsFilledNoGenre(form) ==
    form.title # <<>> /\ form.author # <<>> /\ form.year # 0

\* the condition of line 86
FieldsFilled(form) ==
    form.title # <<>> /\ form.author # <<>> /\ form.year # 0 /\ form.genre # <<>>

\* "Add a Book" with the button pressed
AddBook(form) ==
    /\ Loadable(file)
    /\ LET lib == load_library(file)
           book == Book(form.title, form.author, form.year, form.genre,
                        form.read_status)
       IN  IF FieldsFilled(form)
           THEN /\ Len(lib) < MaxBooks
                /\ library' = Append(lib, book)
                /\ \E io \in IOOutcomes : \E k \in Cuts(Append(lib, book), io) :
                     /\ file' = save_library(file, Append(lib, book), io, k)
                     /\ result' = IF io = "ok" THEN "added" ELSE "io_error"
           ELSE /\ library' = lib
                /\ file' = file
                /\ result' = "rejected"
    /\ op' = "add"
    /\ results' = <<>>
    /\ UNCHANGED <<txt, confirm_clear>>

\* the comprehension of line 106 raises KeyError on a book without a title
RemoveRaises(lib) == \E i \in 1..Len(lib) : ~HasKey(lib[i], "title")

Kept(lib, title_to_remove) ==
    SelectSeq(lib, LAMBDA book : Lower(book["title"]) # Lower(title_to_remove))

\* "Remove a Book" with the button pressed
RemoveBook(title_to_remove) ==
    /\ Loadable(file)
    /\ LET lib == load_library(file)
           kept == Kept(lib, title_to_remove)
       IN  IF RemoveRaises(lib)
           THEN /\ library' = lib
                /\ file' = file
                /\ result' = "key_error"
           ELSE IF Len(kept) < Len(lib)
           THEN /\ library' = kept
                /\ \E io \in IOOutcomes : \E k \in Cuts(kept, io) :
                     /\ file' = save_library(file, kept, io, k)
                     /\ result' = IF io = "ok" THEN "removed" ELSE "io_error"
           ELSE /\ library' = lib
                /\ file' = file
                /\ result' = "not_found"
    /\ op' = "remove"
    /\ results' = <<>>
    /\ UNCHANGED <<txt, confirm_clear>>

\* the condition of line 120 for one book: "match", "skip" or "raise"
\* (`or` does not read the author of a book whose title matches)
Matches(book, search_query) ==
    IF ~HasKey(book, "title") THEN "raise"
    ELSE IF Contains(Lower(book["title"]), Lower(search_query)) THEN "match"
    ELSE IF ~HasKey(book, "author") THEN "raise"
    ELSE IF Contains(Lower(book["author"]), Lower(search_query)) THEN "match"
    ELSE "skip"

SearchRaises(lib, search_query) ==
    \E i \in 1..Len(lib) : Matches(lib[i], search_query) = "raise"

SearchResults(lib, search_query) ==
    SelectSeq(lib, LAMBDA book : Matches(book, search_query) = "match")

\* "Search for a Book"
SearchBooks(search_query) ==
    /\ Loadable(file)
    /\ LET lib == load_library(file)
       IN  /\ library' = lib
           /\ IF search_query = <<>>
              THEN results' = <<>> /\ result' = "no_query"
              ELSE IF SearchRaises(lib, search_query)
              THEN results' = <<>> /\ result' = "key_error"
              ELSE /\ results' = SearchResults(lib, search_query)
                   /\ result' = IF SearchResults(lib, search_query) # <<>>
                                THEN "found" ELSE "no_match"
    /\ op' = "search"
    /\ UNCHANGED <<file, txt, confirm_clear>>

\* df[[...]] of line 143 raises KeyError when no book has one of the columns
DisplayRaises(lib) ==
    lib # <<>> /\ \E f \in Fields : \A i \in 1..Len(lib) : ~HasKey(lib[i], f)

\* "Display All Books"
DisplayBooks ==
    /\ Loadable(file)
    /\ library' = load_library(file)
    /\ op' = "display"
    /\ result' = IF DisplayRaises(load_library(file)) THEN "key_error" ELSE "shown"
    /\ results' = <<>>
    /\ UNCHANGED <<file, txt, confirm_clear>>

\* "Export Library" with the button pressed; the except clause reports a
\* KeyError and library.txt keeps what was written before it.  (A failure
\* to open or write library.txt is not modelled.)
ExportLibrary ==
    /\ Loadable(file)
    /\ library' = load_library(file)
    /\ txt' = ExportText(load_library(file))
    /\ op' = "export"
    /\ result' = IF ExportRaises(load_library(file)) THEN "export_error" ELSE "exported"
    /\ results' = <<>>
    /\ UNCHANGED <<file, confirm_clear>>

\* lines 274-276: what main() keeps of the value import_library returned
Adopted(lib, imported_library) ==
    IF imported_library # <<>> THEN imported_library ELSE lib

\* "Import Library" with an uploaded text; a failing save is caught by the
\* except clause and import_library returns None
ImportLibrary(uploaded) ==
    /\ Loadable(file)
    /\ LET library_ == ParseLibrary(uploaded)
       IN  /\ Len(library_) <= MaxBooks
           /\ \E io \in IOOutcomes : \E k \in Cuts(library_, io) :
                /\ file' = save_library(file, library_, io, k)
                /\ library' = IF io = "ok"
                              THEN Adopted(load_library(file), library_)
                              ELSE load_library(file)
                /\ result' = IF io = "ok" THEN "imported" ELSE "import_error"
    /\ op' = "import"
    /\ results' = <<>>
    /\ UNCHANGED <<txt, confirm_clear>>

\* "Import Library" with bytes that are not UTF-8: decode raises, caught
ImportUndecodable ==
    /\ Loadable(file)
    /\ library' = load_library(file)
    /\ op' = "import"
    /\ result' = "import_error"
    /\ results' = <<>>
    /\ UNCHANGED <<file, txt, confirm_clear>>

\* line 228 reading no flag: every press counts as confirmed
ConfirmedAlways == TRUE

\* line 228: st.session_state.get("confirm_clear", False)
Confirmed == confirm_clear

\* clear_library without line 235: a refused press leaves no flag behind
ClearLibraryForgetful ==
    /\ Loadable(file)
    /\ IF Confirmed
       THEN /\ library' = <<>>
            /\ \E io \in IOOutcomes :
                 /\ file' = save_library(file, <<>>, io, 0)
                 /\ confirm_clear' = (io # "ok")
                 /\ result' = IF io = "ok" THEN "cleared" ELSE "io_error"
       ELSE /\ library' = load_library(file)
            /\ file' = file
            /\ confirm_clear' = confirm_clear
            /\ result' = "confirm_required"
    /\ op' = "clear"
    /\ results' = <<>>
    /\ UNCHANGED txt

\* "Clear Library" with the button pressed
ClearLibrary ==
    /\ Loadable(file)
    /\ IF Confirmed
       THEN /\ library' = <<>>
            /\ \E io \in IOOutcomes :
                 /\ file' = save_library(file, <<>>, io, 0)
                 /\ confirm_clear' = (io # "ok")
                 /\ result' = IF io = "ok" THEN "cleared" ELSE "io_error"
       ELSE /\ library' = load_library(file)
            /\ file' = file
            /\ confirm_clear' = TRUE
            /\ result' = "confirm_required"
    /\ op' = "clear"
    /\ results' = <<>>
    /\ UNCHANGED txt

\* "Exit": saves and stops the run
Exit ==
    /\ Loadable(file)
    /\ library' = load_library(file)
    /\ \E io \in IOOutcomes : \E k \in Cuts(load_library(file), io) :
         /\ file' = save_library(file, load_library(file), io, k)
         /\ result' = IF io = "ok" THEN "stopped" ELSE "io_error"
    /\ op' = "exit"
    /\ results' = <<>>
    /\ UNCHANGED <<txt, confirm_clear>>

\* A new browser session: session state starts empty, lines 243-244 set the
\* flag, and the first run shows "Display All Books"
NewSession ==
    /\ Loadable(file)
    /\ library' = load_library(file)
    /\ confirm_clear' = FALSE
    /\ op' = "start"
    /\ result' = IF DisplayRaises(load_library(file)) THEN "key_error" ELSE "shown"
    /\ results' = <<>>
    /\ UNCHANGED <<file, txt>>

Next ==
    \/ LoadFails
    \/ \E form \in AddForms : AddBook(form)
    \/ \E t \in TitlesToRemove : RemoveBook(t)
    \/ \E q \in Queries : SearchBooks(q)
    \/ DisplayBooks
    \/ ExportLibrary
    \/ \E u \in Uploads : ImportLibrary(u)
    \/ ImportUndecodable
    \/ ClearLibrary
    \/ Exit
    \/ NewSession

Spec == Init /\ [][Next]_vars

----------------------------------------------------------------------------
(* The text codec on catalogs of valid books *)

ValidBook(book) ==
    /\ Complete(book)
    /\ book["title"] # <<>> /\ book["author"] # <<>> /\ book["genre"] # <<>>
    /\ book["year"] # <<>>
    /\ book["read_status"] \in BOOLEAN

ValidCatalog(lib) == \A i \in 1..Len(lib) : ValidBook(lib[i])

\* books add_book accepts: its text inputs take any non-empty text
CodecTitles == { Ab, <<" ","c">> }

CodecBooks ==
    { Book(t, Bc, y, Gn, r) : t \in CodecTitles, y \in {MinYear, MaxYear}, r \in BOOLEAN }

CodecCatalogs == UNION { [1..n -> CodecBooks] : n \in 0..MaxBooks }

\* a session whose library.json holds a catalog built by earlier adds
CodecInit ==
    /\ file \in { ValidFile(c) : c \in CodecCatalogs }
    /\ txt = <<>>
    /\ confirm_clear = FALSE
    /\ library = file.books
    /\ results = <<>>
    /\ op = "start"
    /\ result = "shown"

\* export, then upload the exported file
CodecNext == ExportLibrary \/ ImportLibrary(txt)

CodecSpec == CodecInit /\ [][CodecNext]_vars

----------------------------------------------------------------------------
(* Properties *)

\* C1: importing the text an export wrote for a catalog of valid books
\* saves a catalog equal to the exported one, book by book and field by
\* field (checked under CodecSpec, where every import uploads library.txt).
RoundTrip ==
    [][(/\ op = "export" /\ result = "exported" /\ ValidCatalog(library)
        /\ op' = "import" /\ result' = "imported")
       => file'.books = library]_vars

\* C2: a clear request made while no confirmation is pending changes
\* neither the in-memory catalog nor library.json and reports that
\* confirmation is required; a clear request that changes either of them
\* was confirmed, and a confirmed one that succeeds leaves both empty.
ClearNeedsConfirmation ==
    [][op' = "clear" =>
         /\ ~confirm_clear =>
               /\ library' = load_library(file)
               /\ file' = file
               /\ result' = "confirm_required"
         /\ (library' # load_library(file) \/ file' # file) => confirm_clear
         /\ result' = "cleared" =>
               /\ confirm_clear
               /\ library' = <<>>
               /\ file' = ValidFile(<<>>)]_vars

\* C2 witness: an unconfirmed clear request was refused on a non-empty catalog
ClearRefused ==
    op = "clear" /\ result = "confirm_required" /\ library # <<>>

TitleIs(book, t) == HasKey(book, "title") /\ Lower(book["title"]) = Lower(t)

\* C4: remove(t) leaves exactly the books whose title differs from t
\* ignoring case, in their order; when no title matches it reports
\* not-found and leaves the catalog and library.json unchanged.
RemoveAllMatching ==
    [][\A t \in TitlesToRemove :
         (op' = "remove" /\ RemoveBook(t)) =>
           LET lib == load_library(file)
           IN  /\ library' = SelectSeq(lib, LAMBDA book : ~TitleIs(book, t))
               /\ (\A i \in 1..Len(lib) : ~TitleIs(lib[i], t)) =>
                     /\ result' = "not_found"
                     /\ library' = lib
                     /\ file' = file]_vars

\* a book's title or author contains q when letter case is ignored
Mentions(book, q) ==
    \/ HasKey(book, "title") /\ Contains(Lower(book["title"]), Lower(q))
    \/ HasKey(book, "author") /\ Contains(Lower(book["author"]), Lower(q))

\* C5: search(q) renders, in catalog order, exactly the books whose title
\* or author contains q ignoring case, nothing for the empty query, and
\* changes neither the catalog nor library.json.
SearchExact ==
    [][\A q \in Queries :
         (op' = "search" /\ SearchBooks(q)) =>
           LET lib == load_library(file)
           IN  /\ results' = IF q = <<>> THEN <<>>
                             ELSE SelectSeq(lib, LAMBDA book : Mentions(book, q))
               /\ library' = lib
               /\ file' = file]_vars

\* C6: every book stored in library.json has all five fields.
StoredBooksComplete ==
    \A i \in 1..Len(file.books) : Complete(file.books[i])

\* C7: library.json never holds an empty, truncated or partly written
\* content: a run leaves it as it was or completely rewritten.
SaveAtomic == file.state # "partial"

Failures == {"rejected", "io_error", "import_error", "key_error"}

\* C8: when an add, remove, clear or import fails, the in-memory catalog
\* is the one the run started with.
FailureKeepsCatalog ==
    [][(op' \in {"add", "remove", "clear", "import"} /\ result' \in Failures)
       => library' = load_library(file)]_vars

\* C9: after an add, remove, confirmed clear or import that succeeded,
\* library.json parses to the in-memory catalog.
PersistedAfterMutation ==
    (result \in {"added", "removed", "cleared", "imported"})
       => (Loadable(file) /\ load_library(file) = library)

====
